---- MODULE Spec2Model ----
(***************************************************************************)
(* The job-matching pipeline of ai-job-hunter: main() loads the settings,  *)
(* builds a JobMatcher (which loads scanned_urls.json), JobMatcher.run()   *)
(* walks the listings one at a time (dedup check, distance filter,         *)
(* description fetch, LLM scoring, requirement analysis, cover letter,     *)
(* record, mark seen), saves the seen URLs, and main() writes the exports. *)
(* One process is one "run"; up to MaxRuns processes follow each other on  *)
(* the same feed and the same files.                                       *)
(***************************************************************************)
EXTENDS Integers, Sequences, FiniteSets

(***************************************************************************)
(* Bounds of the model.                                                    *)
(***************************************************************************)
\* number of distinct posting URLs
NumUrls == 3
\* longest CSV feed (data rows)
MaxFeed == 2
\* number of consecutive processes (runs of main) in SpecRuns
MaxRuns == 2
\* longest CSV feed in SpecRuns
MaxFeedRuns == 2
\* length of the feeds that SpecScenario adds
ScenarioFeed == 3
\* the max_distance_km a configuration with an active filter sets
MaxDistance == 50

\* config.py: default (and here configured) score_threshold
ScoreThreshold == 75

URLs == 1..NumUrls

\* Optional values: None is the empty tuple, a present value x is <<x>>.
None == <<>>
Some(x) == <<x>>

Max(a, b) == IF a >= b THEN a ELSE b
Min(a, b) == IF a <= b THEN a ELSE b

(***************************************************************************)
(* Inputs.                                                                 *)
(***************************************************************************)
\* A feed is the sequence of the url column of its rows.  URLs are named in
\* order of first appearance (the first row is URL 1, the next new URL is 2,
\* ...): every feed is such a feed up to the names of its URLs, and the
\* seen-set file ranges over all sets of URLs.
FirstUse(f) == \A i \in 1..Len(f) : \A u \in 1..(f[i] - 1) : \E j \in 1..(i - 1) : f[j] = u
SeqsUpTo(S, n) == UNION {[1..k -> S] : k \in 0..n}
Feeds == {f \in SeqsUpTo(URLs, MaxFeed) : FirstUse(f)}

\* what set() makes of a "urls" value that is a string: its characters, none
\* of them a URL
Junk == 0

\* scanned_urls.json: missing, not valid JSON or unreadable ("corrupt"), valid
\* JSON on which data.get or set() raises ("wrong_shape": a list, a number,
\* "urls" null or a number), {"urls": "some text"} ("urls_string"), or
\* {"urls": [...]}
ScannedFiles == {[kind |-> k, urls |-> {}] :
                     k \in {"missing", "corrupt", "wrong_shape", "urls_string"}}
                \cup {[kind |-> "ok", urls |-> s] : s \in SUBSET URLs}

\* Distances (km) the geocoder may resolve for a posting's city
Distances == {0, MaxDistance, MaxDistance + 1}

\* Values of the "score" field in the model's JSON answer
RawScores == {0 - 5, 60, ScoreThreshold, 90, 150}
ScoreFields == {[type |-> "number", val |-> v] : v \in RawScores}
               \cup {[type |-> "numeric_string", val |-> ScoreThreshold],
                     [type |-> "nan", val |-> 0],
                     [type |-> "text", val |-> 0],
                     [type |-> "null", val |-> 0]}
\* Text of the model's answer to the scoring prompt (or the API call raising)
Responses == {[kind |-> k, score |-> [type |-> "null", val |-> 0]] :
                  k \in {"api_error", "empty", "no_json", "bad_json", "no_score"}}
             \cup {[kind |-> "json", score |-> s] : s \in ScoreFields}

\* job_matcher_config.json.  defect names what is wrong with the file or
\* its surroundings, "none" if nothing.
BaseConfig == [defect |-> "none", use_llm |-> TRUE, score_threshold |-> ScoreThreshold,
               max_jobs |-> MaxFeed, rescan_all_jobs |-> FALSE, cover_letters |-> TRUE,
               target_location |-> None, max_distance_km |-> None]
DistanceConfigs == {<<None, None>>, <<Some("T"), Some(0)>>, <<Some("T"), Some(MaxDistance)>>}
ValidConfigs == {[BaseConfig EXCEPT !.max_jobs = m, !.rescan_all_jobs = r, !.cover_letters = c,
                                    !.target_location = d[1], !.max_distance_km = d[2]] :
                    m \in 1..MaxFeed, r \in BOOLEAN, c \in BOOLEAN, d \in DistanceConfigs}
Defects == {"missing_file", "invalid_json", "no_csv", "no_resume", "no_api_key"}
InvalidConfigs == {[BaseConfig EXCEPT !.defect = d] : d \in Defects}
                  \cup {[BaseConfig EXCEPT !.score_threshold = 0],
                        [BaseConfig EXCEPT !.max_jobs = 0],
                        [BaseConfig EXCEPT !.use_llm = FALSE]}
Configs == ValidConfigs \cup InvalidConfigs

(***************************************************************************)
(* Pure functions of the program.                                          *)
(***************************************************************************)
\* deliberately wrong variant of load_settings_raises: max_jobs is not checked
load_settings_raises_MaxJobsUnchecked(c) ==
    \/ c.defect # "none"
    \/ c.score_threshold <= 0

\* config.load_settings: TRUE iff it raises FileNotFoundError / ValueError
load_settings_raises(c) ==
    \/ c.defect # "none"
    \/ c.score_threshold <= 0
    \/ c.max_jobs <= 0

\* deliberately wrong variant of _load_scanned_urls: a key the file does not
\* hold is read, so nothing is ever loaded
_load_scanned_urls_WrongKey(file) == {}

\* JobMatcher._load_scanned_urls
_load_scanned_urls(file) ==
    IF file.kind = "ok" THEN file.urls
    ELSE IF file.kind = "urls_string" THEN {Junk}
    ELSE {}

\* deliberately wrong variant of fetch_job_listings: the loop breaks one row late
fetch_job_listings_OneRowLate(f, max_jobs) == SubSeq(f, 1, Min(Len(f), max_jobs + 1))

\* web_scraper.fetch_job_listings on a feed that was retrieved: the first
\* max_jobs rows, in feed order
fetch_job_listings(f, max_jobs) == SubSeq(f, 1, Min(Len(f), max_jobs))

\* deliberately wrong variant of ClampScore: no upper clamp
ClampScore_NoUpperBound(score) == Max(0, score)

\* GeminiClient.score_job, line 271
ClampScore(score) == Max(0, Min(100, score))

\* deliberately wrong variant of score_job: a missing score field counts as
\* score 0 (no check of line 256)
score_job_DefaultsMissingScore(r) ==
    IF r.kind = "no_score" THEN Some(0)
    ELSE IF r.kind # "json" THEN None
    ELSE IF r.score.type \in {"text", "null"} THEN None
    ELSE IF r.score.type = "nan" THEN Some(100)
    ELSE Some(Max(0, Min(100, r.score.val)))

\* GeminiClient.score_job from the response text on (232-277): None, or the
\* clamped score.  float() raises on a text that is no number and on null; a
\* number in a string is converted; for NaN min(100.0, nan) is 100.0.
score_job(r) ==
    IF r.kind # "json" THEN None
    ELSE IF r.score.type \in {"text", "null"} THEN None
    ELSE IF r.score.type = "nan" THEN Some(100)
    ELSE Some(ClampScore(r.score.val))

\* Truthiness of an optional number (None and 0 are falsy)
Truthy(opt) == IF opt = None THEN FALSE ELSE opt[1] # 0

\* deliberately wrong variant of FilterActive: the filter is applied although
\* there are no target coordinates
FilterActive_WithoutCoords(coords, c) == Truthy(c.max_distance_km)

\* the condition of matcher.py line 144
FilterActive(coords, c) == coords # None /\ Truthy(c.max_distance_km)

\* deliberately wrong variant of OutOfRange: a posting at exactly the maximum
\* is out of range
OutOfRange_AtMaximum(d, c) == IF d = None THEN TRUE ELSE d[1] >= c.max_distance_km[1]

\* deliberately wrong variant of OutOfRange: an unresolved city is let through
OutOfRange_UnresolvedPasses(d, c) == IF d = None THEN FALSE ELSE d[1] > c.max_distance_km[1]

\* the condition of matcher.py line 146 on the geocoder's answer
OutOfRange(d, c) == IF d = None THEN TRUE ELSE d[1] > c.max_distance_km[1]

\* deliberately wrong variant of AlreadyProcessed: the override flag is read
\* the wrong way round
AlreadyProcessed_Inverted(c, url, seen) == c.rescan_all_jobs /\ url \in seen

\* deliberately wrong variant of AlreadyProcessed: the seen-set is not looked at
AlreadyProcessed_Never(c, url, seen) == FALSE

\* the condition of matcher.py line 138
AlreadyProcessed(c, url, seen) == ~c.rescan_all_jobs /\ url \in seen

\* deliberately wrong variant of AboveThreshold: a score equal to the
\* threshold is below it
AboveThreshold_Strict(score, c) == score > c.score_threshold

\* the condition of matcher.py line 181
AboveThreshold(score, c) == score >= c.score_threshold

\* deliberately wrong variant of matches_above_threshold: nothing is filtered
matches_above_threshold_Unfiltered(jobs, c) == jobs

\* main.py line 98
matches_above_threshold(jobs, c) == SelectSeq(jobs, LAMBDA j : j.score >= c.score_threshold)

\* reporting.write_html_summary line 60: stable sort by score, descending
RECURSIVE InsertByScore(_, _)
InsertByScore(sorted, m) ==
    IF sorted = <<>> THEN <<m>>
    ELSE IF Head(sorted).score >= m.score THEN <<Head(sorted)>> \o InsertByScore(Tail(sorted), m)
    ELSE <<m>> \o sorted
RECURSIVE sorted_matches(_)
sorted_matches(jobs) ==
    IF jobs = <<>> THEN <<>>
    ELSE InsertByScore(sorted_matches(SubSeq(jobs, 1, Len(jobs) - 1)), jobs[Len(jobs)])

(***************************************************************************)
(* State.                                                                  *)
(***************************************************************************)
VARIABLES
    feed,          \* the CSV feed (unchanged between runs)
    config,        \* job_matcher_config.json
    scanned_file,  \* scanned_urls.json
    run,           \* number of the current process
    pc,            \* where the current process is
    response,      \* fetch_job_listings: what the request for the feed gave
    overlong_row,  \* position of the first feed row with more fields than the header
                   \* (0: none), known once the feed is retrieved
    seen_urls,     \* JobMatcher.seen_urls
    loaded,        \* what _load_scanned_urls returned at construction
    target_coords, \* JobMatcher.target_coords
    listings,      \* run(): listings
    idx,           \* run(): position of the posting being examined
    distance_km,   \* run(): distance_km of the current posting
    score,         \* run(): score of the current posting
    all_jobs,      \* run(): all_jobs
    geocoded,      \* <<position, answer>> of each query of the Geocoder for a posting
    fetched,       \* positions for which fetch_job_description was called
    scored,        \* positions for which score_job was called
    failed,        \* positions whose fetch or scoring failed
    lettered,      \* positions for which generate_cover_letter was called
    letter_failed, \* positions whose letter generation or file write failed
    letter_files,  \* positions whose cover letter file was written
    slept,         \* positions after which time.sleep(0.5) ran
    saves,         \* outcomes of the calls of _save_scanned_urls in this run
    json_out,      \* matched_jobs.json as written by this process
    html_out,      \* the HTML summary as written by this process
    prev           \* what the previous run did

vars == <<feed, config, scanned_file, run, pc, response, overlong_row, seen_urls, loaded, target_coords, listings,
          idx, distance_km, score, all_jobs, geocoded, fetched, scored, failed,
          lettered, letter_failed, letter_files, slept, saves, json_out, html_out, prev>>

inputs == <<feed, config, scanned_file, run, prev>>
matcher == <<seen_urls, loaded, target_coords>>
locals == <<distance_km, score>>
calls == <<geocoded, fetched, scored, failed, lettered, letter_failed, letter_files>>
outputs == <<json_out, html_out>>
source == <<response, overlong_row>>

\* prev: whether run() returned in the previous process, whether an error
\* interrupted its loop over the postings, its rescan_all_jobs,
\* whether its save succeeded, the set it had loaded, the URLs it evaluated,
\* the URLs whose fetch or scoring failed and that it did not evaluate, and
\* the URLs whose city the Geocoder did not resolve and that it did not evaluate
NoPrev == [returned |-> FALSE, interrupted |-> FALSE, rescan |-> FALSE, saved |-> FALSE,
           loaded |-> {}, evaluated |-> {}, failed |-> {}, unresolved |-> {}]

\* the first process before main() has done anything
InitState ==
    /\ run = 1
    /\ pc = "main"
    /\ response = "unsent"
    /\ overlong_row = 0
    /\ seen_urls = {}
    /\ loaded = {}
    /\ target_coords = None
    /\ listings = <<>>
    /\ idx = 0
    /\ distance_km = None
    /\ score = 0
    /\ all_jobs = <<>>
    /\ geocoded = {}
    /\ fetched = {}
    /\ scored = {}
    /\ failed = {}
    /\ lettered = {}
    /\ letter_failed = {}
    /\ letter_files = {}
    /\ slept = {}
    /\ saves = <<>>
    /\ json_out = None
    /\ html_out = None
    /\ prev = NoPrev

Init ==
    /\ feed \in Feeds
    /\ config \in Configs
    /\ scanned_file \in ScannedFiles
    /\ InitState

LoopStages == {"dedup", "distance", "fetch", "score", "analyze", "letter"}

\* the for statement of run() line 128, entered for position i
ForLoop(i) ==
    /\ idx' = i
    /\ pc' = IF i <= Len(listings') THEN "dedup" ELSE "save"
    /\ distance_km' = None
    /\ score' = 0

\* `continue`, or the end of the loop body
Continue == ForLoop(idx + 1)

\* an exception leaves run() and is caught in main(), line 108: sys.exit(1)
Fatal ==
    /\ pc' = "exit1"
    /\ UNCHANGED <<idx, locals>>

(***************************************************************************)
(* main(), up to the call of run().                                        *)
(***************************************************************************)
\* main.py 73-77 and 89-91: the settings cannot be loaded, or use_llm is off
ConfigError ==
    /\ pc = "main"
    /\ load_settings_raises(config) \/ ~config.use_llm
    /\ pc' = "exit1"
    /\ UNCHANGED <<inputs, source, matcher, listings, idx, locals, all_jobs, calls, slept, saves, outputs>>

\* main.py 73-91: the settings are loaded
LoadSettings ==
    /\ pc = "main"
    /\ ~load_settings_raises(config)
    /\ config.use_llm
    /\ pc' = "construct"
    /\ UNCHANGED <<inputs, source, matcher, listings, idx, locals, all_jobs, calls, slept, saves, outputs>>

\* JobMatcher.__init__ raises (load_resume or GeminiClient): main.py 108-110
ConstructFails ==
    /\ pc = "construct"
    /\ pc' = "exit1"
    /\ UNCHANGED <<inputs, source, matcher, listings, idx, locals, all_jobs, calls, slept, saves, outputs>>

\* JobMatcher._initialize_location_filtering: the target coordinates, given
\* what geocoding the target location gives ("ok", "none", "error")
_initialize_location_filtering(c, geo) ==
    IF c.target_location = None \/ ~Truthy(c.max_distance_km) THEN None
    ELSE IF geo = "ok" THEN Some("coords")
    ELSE None

\* deliberately wrong variant of Construct: with the rescan-all override the
\* run starts from an empty seen-set
Construct_RescanForgets ==
    /\ pc = "construct"
    /\ seen_urls' = IF config.rescan_all_jobs THEN {} ELSE _load_scanned_urls(scanned_file)
    /\ loaded' = _load_scanned_urls(scanned_file)
    /\ \E geo \in {"ok", "none", "error"} :
           target_coords' = _initialize_location_filtering(config, geo)
    /\ pc' = "listings"
    /\ UNCHANGED <<inputs, source, listings, idx, locals, all_jobs, calls, slept, saves, outputs>>

\* JobMatcher.__init__, matcher.py 31-48
Construct ==
    /\ pc = "construct"
    /\ seen_urls' = _load_scanned_urls(scanned_file)
    /\ loaded' = _load_scanned_urls(scanned_file)
    /\ \E geo \in {"ok", "none", "error"} :
           target_coords' = _initialize_location_filtering(config, geo)
    /\ pc' = "listings"
    /\ UNCHANGED <<inputs, source, listings, idx, locals, all_jobs, calls, slept, saves, outputs>>

(***************************************************************************)
(* JobMatcher.run()                                                        *)
(***************************************************************************)
\* deliberately wrong variant of FetchListingsFails: the error is swallowed
\* and the run goes on with no listings
FetchListingsFails_ReturnsEmpty ==
    /\ pc = "listings"
    /\ response' = "failed"
    /\ UNCHANGED overlong_row
    /\ listings' = <<>>
    /\ ForLoop(1)
    /\ UNCHANGED <<inputs, matcher, all_jobs, calls, slept, saves, outputs>>

\* matcher.py 124, web_scraper.py 38-43: the feed cannot be retrieved
FetchListingsFails ==
    /\ pc = "listings"
    /\ response' = "failed"
    /\ UNCHANGED overlong_row
    /\ Fatal
    /\ UNCHANGED <<inputs, matcher, listings, all_jobs, calls, slept, saves, outputs>>

\* matcher.py 124, web_scraper.py 45-58: the feed is retrieved and one of the
\* rows that the loop reads before it breaks has more fields than the header;
\* csv.DictReader files the surplus under the key None and k.strip() raises
\* AttributeError, which nothing catches before main()
FetchListingsRowRaises ==
    /\ pc = "listings"
    /\ response' = "ok"
    /\ \E k \in 1..Len(feed) :
           /\ k <= config.max_jobs
           /\ overlong_row' = k
    /\ Fatal
    /\ UNCHANGED <<inputs, matcher, listings, all_jobs, calls, slept, saves, outputs>>

\* matcher.py 124-128: the feed is retrieved and no row that the loop reads
\* before it breaks has more fields than the header
FetchListings ==
    /\ pc = "listings"
    /\ response' = "ok"
    /\ \E k \in 0..Len(feed) :
           /\ k = 0 \/ k > config.max_jobs
           /\ overlong_row' = k
    /\ listings' = fetch_job_listings(feed, config.max_jobs)
    /\ ForLoop(1)
    /\ UNCHANGED <<inputs, matcher, all_jobs, calls, slept, saves, outputs>>

\* deliberately wrong variant of DedupSkip: the pause runs for a skipped posting
DedupSkip_Sleeps ==
    /\ pc = "dedup"
    /\ AlreadyProcessed(config, listings[idx], seen_urls)
    /\ slept' = slept \cup {idx}
    /\ UNCHANGED listings
    /\ Continue
    /\ UNCHANGED <<inputs, source, matcher, all_jobs, calls, saves, outputs>>

\* matcher.py 137-140: the URL was already processed
DedupSkip ==
    /\ pc = "dedup"
    /\ AlreadyProcessed(config, listings[idx], seen_urls)
    /\ UNCHANGED listings
    /\ Continue
    /\ UNCHANGED <<inputs, source, matcher, all_jobs, calls, slept, saves, outputs>>

\* deliberately wrong variant of DedupPass: the posting goes straight to the
\* fetch, the distance check is left out
DedupPass_StraightToFetch ==
    /\ pc = "dedup"
    /\ ~AlreadyProcessed(config, listings[idx], seen_urls)
    /\ pc' = "fetch"
    /\ UNCHANGED <<inputs, source, matcher, listings, idx, locals, all_jobs, calls, slept, saves, outputs>>

\* matcher.py 137-143: the posting goes on to the distance check
DedupPass ==
    /\ pc = "dedup"
    /\ ~AlreadyProcessed(config, listings[idx], seen_urls)
    /\ pc' = "distance"
    /\ UNCHANGED <<inputs, source, matcher, listings, idx, locals, all_jobs, calls, slept, saves, outputs>>

\* matcher.py 144-147 with _get_location_distance (90-115): the posting is
\* out of range or its city is not resolved (d = None)
DistanceSkip ==
    /\ pc = "distance"
    /\ FilterActive(target_coords, config)
    /\ \E d \in {None} \cup {Some(k) : k \in Distances} :
           /\ OutOfRange(d, config)
           /\ geocoded' = geocoded \cup {<<idx, d>>}
    /\ UNCHANGED listings
    /\ Continue
    /\ UNCHANGED <<inputs, source, matcher, all_jobs, fetched, scored, failed, lettered, letter_failed,
                   letter_files, slept, saves, outputs>>

\* matcher.py 143-147: no filter, or the posting is in range
DistancePass ==
    /\ pc = "distance"
    /\ IF FilterActive(target_coords, config)
       THEN /\ \E d \in {None} \cup {Some(k) : k \in Distances} :
                   /\ ~OutOfRange(d, config)
                   /\ distance_km' = d
                   /\ geocoded' = geocoded \cup {<<idx, d>>}
       ELSE /\ distance_km' = None
            /\ UNCHANGED geocoded
    /\ pc' = "fetch"
    /\ UNCHANGED <<inputs, source, matcher, listings, idx, score, all_jobs, fetched, scored,
                   failed, lettered, letter_failed, letter_files, slept, saves, outputs>>

\* matcher.py 149-150: the description is fetched
FetchDescription ==
    /\ pc = "fetch"
    /\ fetched' = fetched \cup {idx}
    /\ pc' = "score"
    /\ UNCHANGED <<inputs, source, matcher, listings, idx, distance_km, score, all_jobs, geocoded, scored,
                   failed, lettered, letter_failed, letter_files, slept, saves, outputs>>

\* matcher.py 149-153 with web_scraper.py 305-310: fetch_job_description, which
\* drives a browser and makes no call of requests, re-raises a
\* WebDriverException (navigation, timeout, driver start) or any other error;
\* none is a requests.RequestException, the only error matcher.py 151 catches
FetchWebDriverError ==
    /\ pc = "fetch"
    /\ fetched' = fetched \cup {idx}
    /\ failed' = failed \cup {idx}
    /\ Fatal
    /\ UNCHANGED <<inputs, source, matcher, listings, all_jobs, geocoded, scored, lettered, letter_failed,
                   letter_files, slept, saves, outputs>>

\* deliberately wrong variant of ScoreFails: the URL is marked as seen although
\* its scoring failed
ScoreFails_MarksSeen ==
    /\ pc = "score"
    /\ \E r \in Responses : score_job(r) = None
    /\ scored' = scored \cup {idx}
    /\ failed' = failed \cup {idx}
    /\ seen_urls' = seen_urls \cup {listings[idx]}
    /\ UNCHANGED listings
    /\ Continue
    /\ UNCHANGED <<inputs, source, loaded, target_coords, all_jobs, geocoded, fetched, lettered,
                   letter_failed, letter_files, slept, saves, outputs>>

\* matcher.py 155-158: score_job returns None
ScoreFails ==
    /\ pc = "score"
    /\ \E r \in Responses : score_job(r) = None
    /\ scored' = scored \cup {idx}
    /\ failed' = failed \cup {idx}
    /\ UNCHANGED listings
    /\ Continue
    /\ UNCHANGED <<inputs, source, matcher, all_jobs, geocoded, fetched, lettered, letter_failed,
                   letter_files, slept, saves, outputs>>

\* matcher.py 155-160: score_job returns a payload
ScoreJob ==
    /\ pc = "score"
    /\ \E r \in Responses :
           /\ score_job(r) # None
           /\ score' = score_job(r)[1]
    /\ scored' = scored \cup {idx}
    /\ pc' = "analyze"
    /\ UNCHANGED <<inputs, source, matcher, listings, idx, distance_km, all_jobs, geocoded,
                   fetched, failed, lettered, letter_failed, letter_files, slept, saves, outputs>>

\* matcher.py 162-177: the fetched requirements list is empty, or
\* analyze_requirements returns None or [], or the table is printed
AnalyzeRequirements ==
    /\ pc = "analyze"
    /\ pc' = "letter"
    /\ UNCHANGED <<inputs, source, matcher, listings, idx, locals, all_jobs, calls, slept, saves, outputs>>

\* matcher.py 171 with 309-313: the requirements list is not empty, an element
\* of the analysis is not a dict of the expected shape and
\* _print_requirement_analysis_table raises
AnalysisTableRaises ==
    /\ pc = "analyze"
    /\ Fatal
    /\ UNCHANGED <<inputs, source, matcher, listings, all_jobs, calls, slept, saves, outputs>>

\* JobMatcher._generate_cover_letter_pdf (226-293): the path of the file, or
\* None, given how generation and the write went
_generate_cover_letter_pdf(i, outcome) == IF outcome = "ok" THEN Some(i) ELSE None

\* a JobMatch (data_models.py 26-35); pos is the position of its listing
JobMatch(i, url, sc, cover, dist) ==
    [pos |-> i, url |-> url, score |-> sc, cover_letter_path |-> cover, distance_km |-> dist]

\* deliberately wrong variant of all_jobs_append: the results are kept sorted
\* by score
all_jobs_append_SortedByScore(jobs, m) == InsertByScore(jobs, m)

\* matcher.py 198-208: all_jobs.append(JobMatch(...))
all_jobs_append(jobs, m) == Append(jobs, m)

\* deliberately wrong variant of RecordJob: the seen-set file is written each
\* time a URL is marked
RecordJob_SavesEachTime ==
    /\ pc = "letter"
    /\ \E outcome \in {"ok", "generation_failed", "write_failed"} :
         LET wanted == AboveThreshold(score, config) /\ config.cover_letters
             cover == IF wanted THEN _generate_cover_letter_pdf(idx, outcome) ELSE None
         IN /\ lettered' = IF wanted THEN lettered \cup {idx} ELSE lettered
            /\ letter_failed' = IF wanted /\ outcome # "ok" THEN letter_failed \cup {idx}
                                ELSE letter_failed
            /\ letter_files' = IF cover # None THEN letter_files \cup {idx} ELSE letter_files
            /\ all_jobs' = Append(all_jobs, JobMatch(idx, listings[idx], score, cover, distance_km))
    /\ seen_urls' = seen_urls \cup {listings[idx]}
    /\ scanned_file' = [kind |-> "ok", urls |-> seen_urls \cup {listings[idx]}]
    /\ slept' = slept \cup {idx}
    /\ UNCHANGED listings
    /\ Continue
    /\ UNCHANGED <<feed, config, run, prev, source, loaded, target_coords, geocoded, fetched, scored,
                   failed, saves, outputs>>

\* deliberately wrong variant of RecordJob: the URL is not marked as processed
RecordJob_MarksNothing ==
    /\ pc = "letter"
    /\ \E outcome \in {"ok", "generation_failed", "write_failed"} :
         LET wanted == AboveThreshold(score, config) /\ config.cover_letters
             cover == IF wanted THEN _generate_cover_letter_pdf(idx, outcome) ELSE None
         IN /\ lettered' = IF wanted THEN lettered \cup {idx} ELSE lettered
            /\ letter_failed' = IF wanted /\ outcome # "ok" THEN letter_failed \cup {idx}
                                ELSE letter_failed
            /\ letter_files' = IF cover # None THEN letter_files \cup {idx} ELSE letter_files
            /\ all_jobs' = Append(all_jobs, JobMatch(idx, listings[idx], score, cover, distance_km))
    /\ slept' = slept \cup {idx}
    /\ UNCHANGED listings
    /\ Continue
    /\ UNCHANGED <<inputs, source, matcher, geocoded, fetched, scored, failed, saves, outputs>>

\* matcher.py 179-213: the cover letter (above the threshold and enabled),
\* the record appended to all_jobs, the URL marked, the pause
RecordJob ==
    /\ pc = "letter"
    /\ \E outcome \in {"ok", "generation_failed", "write_failed"} :
         LET wanted == AboveThreshold(score, config) /\ config.cover_letters
             cover == IF wanted THEN _generate_cover_letter_pdf(idx, outcome) ELSE None
         IN /\ lettered' = IF wanted THEN lettered \cup {idx} ELSE lettered
            /\ letter_failed' = IF wanted /\ outcome # "ok" THEN letter_failed \cup {idx}
                                ELSE letter_failed
            /\ letter_files' = IF cover # None THEN letter_files \cup {idx} ELSE letter_files
            /\ all_jobs' = all_jobs_append(all_jobs, JobMatch(idx, listings[idx], score, cover, distance_km))
    /\ seen_urls' = seen_urls \cup {listings[idx]}
    /\ slept' = slept \cup {idx}
    /\ UNCHANGED listings
    /\ Continue
    /\ UNCHANGED <<inputs, source, loaded, target_coords, geocoded, fetched, scored, failed, saves, outputs>>

\* JobMatcher._save_scanned_urls (62-69): the file after the call.  open()
\* may fail (file untouched); a failure after open("w") leaves a truncated file
_save_scanned_urls(file, seen, outcome) ==
    IF outcome = "ok" THEN [kind |-> "ok", urls |-> seen]
    ELSE IF outcome = "open_failed" THEN file
    ELSE [kind |-> "corrupt", urls |-> {}]

\* deliberately wrong variant of SaveScannedUrls: a failed save is raised to
\* the caller
SaveScannedUrls_RaisesOnFailure ==
    /\ pc = "save"
    /\ \E outcome \in {"ok", "open_failed", "write_failed"} :
           /\ scanned_file' = _save_scanned_urls(scanned_file, seen_urls, outcome)
           /\ saves' = Append(saves, outcome)
           /\ pc' = IF outcome = "ok" THEN "json" ELSE "exit1"
    /\ UNCHANGED <<feed, config, run, prev, source, matcher, listings, idx, locals, all_jobs, calls,
                   slept, outputs>>

\* matcher.py 215-224: the save at the end of run(), and run() returns
SaveScannedUrls ==
    /\ pc = "save"
    /\ \E outcome \in {"ok", "open_failed", "write_failed"} :
           /\ scanned_file' = _save_scanned_urls(scanned_file, seen_urls, outcome)
           /\ saves' = Append(saves, outcome)
    /\ pc' = "json"
    /\ UNCHANGED <<feed, config, run, prev, source, matcher, listings, idx, locals, all_jobs, calls,
                   slept, outputs>>

(***************************************************************************)
(* main(), after run() returned.                                           *)
(***************************************************************************)
\* main.py 98-100, reporting.write_matches_json
WriteMatchesJson ==
    /\ pc = "json"
    /\ json_out' = Some(matches_above_threshold(all_jobs, config))
    /\ pc' = "html"
    /\ UNCHANGED <<inputs, source, matcher, listings, idx, locals, all_jobs, calls, slept, saves, html_out>>

\* reporting.py 47: write_text raises; main.py 108-110
WriteMatchesJsonFails ==
    /\ pc = "json"
    /\ pc' = "exit1"
    /\ UNCHANGED <<inputs, source, matcher, listings, idx, locals, all_jobs, calls, slept, saves, outputs>>

\* main.py 101-107, reporting.write_html_summary
WriteHtmlSummary ==
    /\ pc = "html"
    /\ html_out' = Some(sorted_matches(all_jobs))
    /\ pc' = "exit0"
    /\ UNCHANGED <<inputs, source, matcher, listings, idx, locals, all_jobs, calls, slept, saves, json_out>>

\* write_html_summary raises; main.py 108-110
WriteHtmlSummaryFails ==
    /\ pc = "html"
    /\ pc' = "exit1"
    /\ UNCHANGED <<inputs, source, matcher, listings, idx, locals, all_jobs, calls, slept, saves, outputs>>

\* URLs of a set of positions of the listings
UrlsAt(positions) == {listings[i] : i \in positions}
Evaluated == {all_jobs[k].url : k \in 1..Len(all_jobs)}

\* The process has ended and the program is started again: same feed, same
\* files, the configuration unchanged but for rescan_all_jobs, which is off.
StartNextRun ==
    /\ pc \in {"exit0", "exit1"}
    /\ run < MaxRuns
    /\ run' = run + 1
    /\ config' = [config EXCEPT !.rescan_all_jobs = FALSE]
    /\ prev' = [returned |-> saves # <<>>,
                interrupted |-> saves = <<>> /\ idx >= 1,
                rescan |-> config.rescan_all_jobs,
                saved |-> saves = <<"ok">>,
                loaded |-> loaded,
                evaluated |-> Evaluated,
                failed |-> UrlsAt(failed) \ Evaluated,
                unresolved |-> UrlsAt({g[1] : g \in {h \in geocoded : h[2] = None}}) \ Evaluated]
    /\ pc' = "main"
    /\ response' = "unsent"
    /\ overlong_row' = 0
    /\ seen_urls' = {}
    /\ loaded' = {}
    /\ target_coords' = None
    /\ listings' = <<>>
    /\ idx' = 0
    /\ distance_km' = None
    /\ score' = 0
    /\ all_jobs' = <<>>
    /\ geocoded' = {}
    /\ fetched' = {}
    /\ scored' = {}
    /\ failed' = {}
    /\ lettered' = {}
    /\ letter_failed' = {}
    /\ letter_files' = {}
    /\ slept' = {}
    /\ saves' = <<>>
    /\ json_out' = None
    /\ html_out' = None
    /\ UNCHANGED <<feed, scanned_file>>

Next ==
    \/ ConfigError
    \/ LoadSettings
    \/ ConstructFails
    \/ Construct
    \/ FetchListingsFails
    \/ FetchListingsRowRaises
    \/ FetchListings
    \/ DedupSkip
    \/ DedupPass
    \/ DistanceSkip
    \/ DistancePass
    \/ FetchDescription
    \/ FetchWebDriverError
    \/ ScoreFails
    \/ ScoreJob
    \/ AnalyzeRequirements
    \/ AnalysisTableRaises
    \/ RecordJob
    \/ SaveScannedUrls
    \/ WriteMatchesJson
    \/ WriteMatchesJsonFails
    \/ WriteHtmlSummary
    \/ WriteHtmlSummaryFails

\* one process
Spec == Init /\ [][Next]_vars

\* consecutive processes, on feeds that max_jobs does not cut, with cover
\* letters enabled
InitRuns ==
    /\ Init
    /\ Len(feed) <= MaxFeedRuns
    /\ scanned_file.urls \subseteq 1..MaxFeedRuns
    /\ config.max_jobs >= MaxFeedRuns
    /\ config.cover_letters

NextRuns ==
    \/ Next
    \/ StartNextRun

SpecRuns == InitRuns /\ [][NextRuns]_vars

\* one process, the feeds of ScenarioFeed postings added: on these the
\* configuration is the default one with max_jobs at the length of the feed
\* (threshold 75, cover letters enabled, no override, no distance filter)
ScenarioConfigs == {[BaseConfig EXCEPT !.max_jobs = ScenarioFeed]}
InitScenario ==
    /\ feed \in {f \in SeqsUpTo(URLs, ScenarioFeed) : FirstUse(f)}
    /\ config \in Configs \cup ScenarioConfigs
    /\ (Len(feed) > MaxFeed) <=> (config \in ScenarioConfigs)
    /\ scanned_file \in ScannedFiles
    /\ InitState

SpecScenario == InitScenario /\ [][Next]_vars

(***************************************************************************)
(* Vocabulary of the properties.                                           *)
(***************************************************************************)
Positions == 1..Len(listings)
Ended == pc \in {"exit0", "exit1"}
\* positions the Geocoder, the Description Fetcher, the Scorer or the Letter
\* Generator was invoked for
GeocodedAt == {g[1] : g \in geocoded}
Invoked == GeocodedAt \cup fetched \cup scored \cup lettered
\* positions with an Evaluation in the results
EvaluatedAt == {all_jobs[k].pos : k \in 1..Len(all_jobs)}
\* the loop goes on with the posting after position i
MovesOnFrom(i) == idx' = i + 1 /\ pc' = IF i + 1 <= Len(listings) THEN "dedup" ELSE "save"

\* C1: a posting whose URL is in the seen-set when it is examined, without the
\* rescan-all override, is skipped entirely: the step invokes no adapter,
\* leaves the seen-set and the results as they are and goes on to the next
\* posting; adapters are only ever invoked for the posting under examination
\* once it has passed the dedup check, so none is invoked for it later.
C1_DedupSkipsEntirely ==
    [][/\ (pc = "dedup" /\ ~config.rescan_all_jobs /\ listings[idx] \in seen_urls)
            => /\ geocoded' = geocoded /\ fetched' = fetched /\ scored' = scored
               /\ lettered' = lettered /\ letter_files' = letter_files
               /\ seen_urls' = seen_urls
               /\ all_jobs' = all_jobs
               /\ MovesOnFrom(idx)
       /\ (run' = run /\ (geocoded' # geocoded \/ fetched' # fetched \/ scored' # scored
                          \/ lettered' # lettered \/ all_jobs' # all_jobs))
            => /\ pc \in LoopStages \ {"dedup"}
               /\ GeocodedAt' \cup fetched' \cup scored' \cup lettered' \cup EvaluatedAt'
                      \subseteq Invoked \cup EvaluatedAt \cup {idx}]_vars

\* C1 witness: a run that skipped a posting already in the loaded seen-set and
\* evaluated another one
C1_Witness ==
    /\ pc = "save"
    /\ ~config.rescan_all_jobs
    /\ \E i \in Positions : listings[i] \in loaded /\ i \notin Invoked \cup EvaluatedAt
    /\ all_jobs # <<>>

\* positions whose description was fetched and scored successfully
Processed == (fetched \cap scored) \ failed
\* positions whose description fetch failed, and whose scoring failed
FetchFailed == failed \ scored
ScoreFailed == failed \cap scored
\* the URL of position i is in the seen-set on account of position i alone
MarkedOnlyBy(i) ==
    /\ listings[i] \in seen_urls
    /\ listings[i] \notin loaded
    /\ \A j \in EvaluatedAt : listings[j] = listings[i] => j = i

\* C2: an identifier is added to the seen-set if and only if the posting's
\* fetch and scoring both succeeded in this run: every posting the loop is
\* done with, or that the run ended on, is in the seen-set and in the results
\* if it was fetched and scored, and the seen-set is the loaded set united
\* with the identifiers in the results.
C2_SeenIffFetchedAndScored ==
    /\ \A i \in Positions :
           (i \in Processed /\ (i < idx \/ Ended))
               => (listings[i] \in seen_urls /\ i \in EvaluatedAt)
    /\ seen_urls = loaded \cup Evaluated
    /\ EvaluatedAt \subseteq Processed

\* C3: a failed description fetch skips only that posting: it is neither
\* marked nor evaluated, the loop goes on, the seen-set is saved at the end
\* and the results are returned.
C3_FetchFailureSkipsOnlyThatPosting ==
    \A i \in FetchFailed :
        /\ i \notin EvaluatedAt
        /\ ~MarkedOnlyBy(i)
        /\ Ended => saves # <<>>

\* C4: no answer, an answer without JSON and a JSON answer without a score
\* field are scoring failures, and on a scoring failure the step leaves the
\* seen-set and the results as they are, invokes no Letter Generator and goes
\* on to the next posting.
C4_ScoringFailureSkipsOnlyThatPosting ==
    [][/\ \A r \in Responses :
              r.kind \in {"empty", "no_json", "bad_json", "no_score"} => score_job(r) = None
       /\ (pc = "score" /\ idx \in failed')
            => /\ seen_urls' = seen_urls
               /\ all_jobs' = all_jobs
               /\ lettered' = lettered /\ letter_files' = letter_files
               /\ MovesOnFrom(idx)
       /\ \A i \in ScoreFailed : i \notin EvaluatedAt \cup lettered]_vars

\* C4 witness: scoring failed for a posting, which is not in the seen-set, and
\* a later posting was evaluated
C4_Witness ==
    /\ pc = "save"
    /\ \E i \in ScoreFailed : \E j \in EvaluatedAt : j > i /\ listings[i] \notin seen_urls

\* URLs in a written export
ExportedUrls(out) == IF out = None THEN {} ELSE {out[1][k].url : k \in 1..Len(out[1])}

C6_FailedPostingNeverPersisted ==
    (run > 1 /\ prev.returned /\ pc \notin {"main", "construct"}) => prev.failed \cap loaded = {}

\* C6 amended: a posting whose fetch or scoring failed, that no other row got
\* evaluated and that was not already in the seen-set the failing run had
\* loaded, is not in the seen-set the next run loads, and the dedup check of
\* that run lets it pass.
C6_FailedPostingNotAdded ==
    /\ (run > 1 /\ pc \notin {"main", "construct"})
           => (prev.failed \ prev.loaded) \cap loaded = {}
    /\ (run > 1 /\ pc = "dedup" /\ listings[idx] \in prev.failed \ prev.loaded
                /\ listings[idx] \notin Evaluated)
           => ~AlreadyProcessed(config, listings[idx], seen_urls)

\* C6 witness: the next run has fetched again a posting that failed in the
\* run before
C6_Witness ==
    /\ run > 1
    /\ pc = "score"
    /\ listings[idx] \in prev.failed \ prev.loaded
    /\ idx \in fetched

\* C7: an Evaluation has a cover letter, and the file exists, exactly when
\* its score reaches the threshold, cover letters are enabled and neither
\* the generation nor the write failed; the Letter Generator is invoked
\* exactly for the evaluated postings at or above the threshold with cover
\* letters enabled.
C7_ThresholdGating ==
    /\ \A k \in 1..Len(all_jobs) :
           LET j == all_jobs[k]
               due == j.score >= config.score_threshold /\ config.cover_letters
           IN /\ (j.cover_letter_path # None) <=> (due /\ j.pos \notin letter_failed)
              /\ (j.pos \in letter_files) <=> (j.cover_letter_path # None)
              /\ (j.pos \in lettered) <=> due
    /\ letter_files \subseteq lettered
    /\ lettered \subseteq EvaluatedAt

\* C7 witness: with cover letters enabled, a letter for a posting scored
\* exactly at the threshold and none for one below it
C7_Witness ==
    /\ \E k \in 1..Len(all_jobs) :
           all_jobs[k].score = config.score_threshold /\ all_jobs[k].cover_letter_path # None
    /\ \E k \in 1..Len(all_jobs) :
           all_jobs[k].score < config.score_threshold /\ all_jobs[k].cover_letter_path = None
    /\ config.cover_letters

\* C8: with the distance filter active every posting that gets fetched was
\* geocoded first; a posting resolved farther than the maximum is not
\* fetched, scored, evaluated or marked seen; a posting resolved within the
\* maximum goes on to the fetch and its Evaluation carries that distance.
C8_DistanceFilter ==
    /\ FilterActive(target_coords, config) => fetched \subseteq GeocodedAt
    /\ \A g \in geocoded :
           LET i == g[1]
               d == g[2]
           IN d # None =>
                IF d[1] > config.max_distance_km[1]
                THEN /\ i \notin fetched \cup scored \cup EvaluatedAt
                     /\ ~MarkedOnlyBy(i)
                ELSE /\ (idx = i /\ pc = "fetch") \/ i \in fetched
                     /\ \A k \in 1..Len(all_jobs) :
                            all_jobs[k].pos = i => all_jobs[k].distance_km = d

\* C8 witness: a posting at exactly the maximum was evaluated and one beyond
\* the maximum was skipped
C8_Witness ==
    /\ pc = "save"
    /\ \E k \in 1..Len(all_jobs) : all_jobs[k].distance_km = Some(MaxDistance)
    /\ \E g \in geocoded : g[2] = Some(MaxDistance + 1)

\* a posting whose city the Geocoder did not resolve is skipped with no
\* fetch, scoring, letter, Evaluation or mark
UnresolvedSkipped ==
    \A g \in geocoded :
        g[2] = None => /\ g[1] \notin fetched \cup scored \cup lettered \cup EvaluatedAt
                       /\ ~MarkedOnlyBy(g[1])

\* C9 as stated: an unresolved posting is skipped like an out-of-range one,
\* and the dedup check of every following run lets it pass to the distance
\* step again.
C9_UnresolvedExaminedEveryRun ==
    /\ UnresolvedSkipped
    /\ (run > 1 /\ pc = "dedup" /\ listings[idx] \in prev.unresolved
                /\ listings[idx] \notin Evaluated)
           => ~AlreadyProcessed(config, listings[idx], seen_urls)

\* C9 amended: an unresolved posting is skipped like an out-of-range one, and
\* unless its identifier was already in the seen-set that run had loaded, the
\* dedup check of the following run lets it pass to the distance step again.
C9_UnresolvedSkippedAndNotMarked ==
    /\ UnresolvedSkipped
    /\ (run > 1 /\ pc \notin {"main", "construct"})
           => (prev.unresolved \ prev.loaded) \cap loaded = {}
    /\ (run > 1 /\ pc = "dedup" /\ listings[idx] \in prev.unresolved \ prev.loaded
                /\ listings[idx] \notin Evaluated)
           => ~AlreadyProcessed(config, listings[idx], seen_urls)

\* C9 witness: the following run is at the distance step of a posting that
\* was unresolved in the run before
C9_Witness ==
    /\ run > 1
    /\ pc = "distance"
    /\ listings[idx] \in prev.unresolved \ prev.loaded
    /\ FilterActive(target_coords, config)

\* C10: every score the Scorer returns, and the score of every Evaluation in
\* the results, the JSON export and the HTML report, is within 0..100.
InRange(sc) == 0 <= sc /\ sc <= 100
ScoresInRange(jobs) == \A k \in 1..Len(jobs) : InRange(jobs[k].score)
C10_ScoreClamped ==
    /\ \A r \in Responses : score_job(r) # None => InRange(score_job(r)[1])
    /\ ScoresInRange(all_jobs)
    /\ json_out # None => ScoresInRange(json_out[1])
    /\ html_out # None => ScoresInRange(html_out[1])

\* C10 witness: the exports were written after the model answered -5 for one
\* posting (the only answer stored as 0) and more than 100 for another
C10_Witness ==
    /\ pc = "exit0"
    /\ \E k \in 1..Len(all_jobs) : all_jobs[k].score = 0
    /\ \E k \in 1..Len(html_out[1]) : html_out[1][k].score = 100
    /\ \E k \in 1..Len(json_out[1]) : json_out[1][k].score = 100
    /\ score_job([kind |-> "json", score |-> [type |-> "number", val |-> 150]]) = Some(100)

\* positions of the postings with the URL of position i for which the
\* Description Fetcher, and the Scorer, was invoked
FetchedFor(i) == {j \in fetched : listings[j] = listings[i]}
ScoredFor(i) == {j \in scored : listings[j] = listings[i]}

\* C11 as stated: whatever the feed and the override, the Description Fetcher
\* and the Scorer were each invoked exactly once for the identifier of every
\* posting the run marked seen.
C11_OncePerIdentifier ==
    \A i \in EvaluatedAt : Cardinality(FetchedFor(i)) = 1 /\ Cardinality(ScoredFor(i)) = 1

\* C11 amended: for every posting the run marked seen the Description Fetcher
\* and the Scorer were each invoked for that posting, successfully, and no step
\* invokes either for a posting it was already invoked for; without the
\* rescan-all override every other invocation for the same identifier was for
\* an earlier posting whose fetch or scoring failed.
C11_OncePerPosting ==
    /\ [](\A i \in EvaluatedAt :
              /\ i \in Processed
              /\ ~config.rescan_all_jobs
                    => \A j \in (FetchedFor(i) \cup ScoredFor(i)) \ {i} : j < i /\ j \in failed)
    /\ [][run' = run =>
              /\ fetched' # fetched => (idx \notin fetched /\ fetched' = fetched \cup {idx})
              /\ scored' # scored => (idx \notin scored /\ scored' = scored \cup {idx})]_vars

\* C11 witness: without the override, a feed that repeats an identifier; the
\* scoring of the first posting failed, the second one was evaluated and marked
C11_Witness ==
    /\ pc = "save"
    /\ ~config.rescan_all_jobs
    /\ \E i \in EvaluatedAt : \E j \in ScoredFor(i) :
           j < i /\ j \in failed /\ listings[i] \in seen_urls \ loaded

\* run() has returned (its last statement before the return is the save)
Returned == saves # <<>>

\* C12: the results are in processing order: the positions of the Evaluations
\* are strictly increasing and each Evaluation carries the URL of its listing
\* (a subsequence of the listings, never reordered by score), and when run()
\* has returned they are exactly the postings fetched and scored successfully,
\* below the threshold or not.
C12_ResultsInProcessingOrder ==
    /\ \A k \in 1..Len(all_jobs) :
           /\ all_jobs[k].pos \in Positions
           /\ all_jobs[k].url = listings[all_jobs[k].pos]
           /\ \A l \in 1..(k - 1) : all_jobs[l].pos < all_jobs[k].pos
    /\ Returned => EvaluatedAt = Processed

\* C12 witness: run() returned a posting below the threshold followed by one
\* with a higher score, above the threshold
C12_Witness ==
    /\ Returned
    /\ Len(all_jobs) = 2
    /\ all_jobs[1].score < config.score_threshold
    /\ all_jobs[2].score >= config.score_threshold
    /\ all_jobs[1].pos < all_jobs[2].pos

\* C13: the seen-set file is written by one step only, the save that follows
\* the last posting: no save has happened while postings are being handled,
\* a run() that returned saved exactly once, and the save, failed or not, goes
\* on to the return with the results as they were.
C13_SavedOnceAtEnd ==
    /\ [](/\ pc \in LoopStages \cup {"main", "construct", "listings", "save"} => saves = <<>>
          /\ Returned => (Len(saves) = 1 /\ idx = Len(listings) + 1))
    /\ [][(run' = run /\ (saves' # saves \/ scanned_file' # scanned_file))
              => /\ pc = "save"
                 /\ idx = Len(listings) + 1
                 /\ pc' = "json"
                 /\ all_jobs' = all_jobs]_vars

\* C13 witness: the save failed, run() returned two Evaluations and both
\* exports were written from them
C13_Witness ==
    /\ pc = "exit0"
    /\ saves \in {<<"open_failed">>, <<"write_failed">>}
    /\ Len(all_jobs) = 2
    /\ html_out # None /\ Len(html_out[1]) = 2

\* the previous run was interrupted: an error ended it while run() was
\* handling the postings, before the save
PrevInterrupted == run > 1 /\ prev.interrupted

\* the JobMatcher of this process has been constructed (pc = "exit1" may be
\* before or after)
Constructed == pc \in LoopStages \cup {"listings", "save", "json", "html", "exit0"}

\* C14 as stated: a run interrupted before its save leaves the seen-set file
\* as it was, and the dedup check of the next run lets every posting pass that
\* the interrupted run had processed.
C14_InterruptedRunReprocessedAll ==
    /\ (PrevInterrupted /\ Constructed) => loaded = prev.loaded
    /\ (PrevInterrupted /\ pc = "dedup" /\ listings[idx] \in prev.evaluated
                        /\ listings[idx] \notin Evaluated)
           => ~AlreadyProcessed(config, listings[idx], seen_urls)

\* C14 amended: no step but the save at the end of run() changes the seen-set
\* file, so after a run interrupted before its save the next run loads what
\* the interrupted run had loaded, and its dedup check lets every posting pass
\* that the interrupted run had processed and that was not already in the
\* seen-set that run had loaded.
C14_InterruptedRunSavesNothing ==
    /\ [][(run' = run /\ pc # "save") => scanned_file' = scanned_file]_vars
    /\ [](/\ (PrevInterrupted /\ Constructed) => loaded = prev.loaded
          /\ (PrevInterrupted /\ pc = "dedup" /\ listings[idx] \in prev.evaluated \ prev.loaded
                              /\ listings[idx] \notin Evaluated)
                 => ~AlreadyProcessed(config, listings[idx], seen_urls))

\* C14 witness: the run before evaluated a posting and was then interrupted;
\* this run has fetched that posting again
C14_Witness ==
    /\ PrevInterrupted
    /\ pc = "score"
    /\ listings[idx] \in prev.evaluated \ prev.loaded
    /\ idx \in fetched

\* C15: after a save attempt, whatever its outcome, the next load of the
\* seen-set file gives the set loaded at the start of the run or the set the
\* run ended with.
C15_SaveIsAtomic ==
    Returned => _load_scanned_urls(scanned_file) \in {loaded, seen_urls}

\* C16: when scanned_urls.json is missing, unreadable, not valid JSON or valid
\* JSON of an unexpected shape, the load gives the empty set, and the
\* construction goes on to the run with an empty seen-set.
C16_LoadFailsSoft ==
    (pc = "listings" /\ scanned_file.kind # "ok") => (seen_urls = {} /\ loaded = {})

\* C17: whatever happens in the requirement-analysis step, the posting goes on
\* to the cover-letter and record step with its score and distance untouched,
\* so its Evaluation is appended, it is marked seen and the run continues.
C17_AnalysisFailureIsHarmless ==
    [][(pc = "analyze" /\ run' = run)
          => /\ pc' = "letter"
             /\ idx' = idx
             /\ score' = score
             /\ distance_km' = distance_km]_vars

\* C18: once run() has returned, the JSON export is attempted and, whether it
\* was written or not, the HTML report is attempted next, and whether that
\* was written or not the process ends normally.
C18_BothExportsAttempted ==
    [][run' = run =>
          /\ pc = "json" => pc' = "html"
          /\ pc = "html" => pc' = "exit0"]_vars

\* the configuration has one of the errors of C19
ConfigDefective ==
    \/ config.defect \in {"missing_file", "invalid_json", "no_csv", "no_resume", "no_api_key"}
    \/ config.score_threshold <= 0
    \/ config.max_jobs <= 0

\* C19: with a configuration error the process goes from its start straight
\* to a non-zero exit: no JobMatcher is constructed, no listing is retrieved,
\* no adapter is invoked, and neither the seen-set file nor an export is
\* written.
C19_ConfigErrorIsFatalAtStartup ==
    /\ [](ConfigDefective =>
              /\ pc \in {"main", "exit1"}
              /\ seen_urls = {} /\ loaded = {} /\ target_coords = None
              /\ listings = <<>> /\ idx = 0
              /\ Invoked = {} /\ all_jobs = <<>>
              /\ saves = <<>>
              /\ json_out = None /\ html_out = None)
    /\ [][ConfigDefective => scanned_file' = scanned_file]_vars

\* C19 witness: the process has exited on a configuration whose max_jobs is 0,
\* with postings in the feed and URLs in the seen-set file
C19_Witness ==
    /\ pc = "exit1"
    /\ config.max_jobs = 0
    /\ feed # <<>>
    /\ scanned_file.kind = "ok" /\ scanned_file.urls # {}

\* the scores of a sequence of Evaluations, in order
ScoresOf(jobs) == [k \in 1..Len(jobs) |-> jobs[k].score]

\* the scenario of C20: a feed of three distinct postings, one of them already
\* in the loaded seen-set; the other two were fetched and scored, the Scorer
\* answered 90 and 60, cover letters are enabled, the letter was generated and
\* written, and the process ended normally
C20_Scenario ==
    /\ pc = "exit0"
    /\ config.cover_letters
    /\ Len(listings) = 3
    /\ Cardinality(UrlsAt(Positions)) = 3
    /\ Cardinality(UrlsAt(Positions) \cap loaded) = 1
    /\ scored = {i \in Positions : listings[i] \notin loaded}
    /\ failed = {} /\ letter_failed = {}
    /\ \A k \in 1..Len(all_jobs) : all_jobs[k].score \in {90, 60}
    /\ \E k \in 1..Len(all_jobs) : all_jobs[k].score = 90
    /\ \E k \in 1..Len(all_jobs) : all_jobs[k].score = 60

\* C20: a JSON export that was written holds exactly the Evaluations of the
\* results at or above the threshold, in result order; an HTML report that
\* was written holds one row for every Evaluation of the results; and in the
\* scenario the results hold 2 Evaluations, the JSON export 1 entry (score
\* 90) and exactly one cover-letter file was created.
C20_ExportsMatchResults ==
    /\ json_out # None =>
           /\ json_out[1] = SelectSeq(all_jobs, LAMBDA j : j.score >= config.score_threshold)
           /\ \A k \in 1..Len(json_out[1]) : json_out[1][k].score >= config.score_threshold
           /\ \A k \in 1..Len(all_jobs) :
                  all_jobs[k].score >= config.score_threshold
                      => \E l \in 1..Len(json_out[1]) : json_out[1][l] = all_jobs[k]
    /\ html_out # None =>
           /\ Len(html_out[1]) = Len(all_jobs)
           /\ {html_out[1][k] : k \in 1..Len(html_out[1])} = {all_jobs[k] : k \in 1..Len(all_jobs)}
    /\ C20_Scenario =>
           /\ Len(all_jobs) = 2
           /\ Len(json_out[1]) = 1 /\ json_out[1][1].score = 90
           /\ Cardinality(letter_files) = 1
           /\ Len(html_out[1]) = 2

\* C20 witness: the scenario, with the posting scored 60 before the one
\* scored 90
C20_Witness ==
    /\ C20_Scenario
    /\ ScoresOf(all_jobs) = <<60, 90>>
    /\ ScoresOf(html_out[1]) = <<90, 60>>
    /\ ScoresOf(json_out[1]) = <<90>>

\* C21: the pause runs only in the step that records a posting and marks it
\* seen, once for that posting and before the loop goes on to the next one;
\* the postings it ran for are exactly the recorded ones, and a step that
\* skips a posting (dedup check, distance filter) leaves it out.
C21_PauseOncePerProcessedPosting ==
    /\ [](/\ slept = EvaluatedAt
          /\ slept \subseteq Processed
          /\ \A i \in slept : listings[i] \in seen_urls)
    /\ [][run' = run =>
              /\ slept' # slept
                    => /\ pc = "letter"
                       /\ idx \notin slept /\ slept' = slept \cup {idx}
                       /\ idx \in EvaluatedAt' /\ listings[idx] \in seen_urls'
                       /\ MovesOnFrom(idx)
              /\ pc \in {"dedup", "distance"} => slept' = slept]_vars

\* C21 witness: the run paused after the posting it evaluated and not for the
\* one the dedup check skipped nor for one the distance filter skipped
C21_Witness ==
    /\ pc = "save"
    /\ ~config.rescan_all_jobs
    /\ \E i \in EvaluatedAt : i \in slept
    /\ \/ \E j \in Positions \ slept : listings[j] \in loaded
       \/ \E j \in GeocodedAt \ slept : j \notin fetched

\* C22 as stated: once the feed is retrieved, no row makes the Listing Source
\* fail: the call returns, with one posting for each of the rows up to the
\* maximum, whatever their shape (the step from "listings" with the feed
\* retrieved never ends the process, and the listings are as long as the cut
\* feed).
C22_MalformedRowNeverFatal ==
    [][(pc = "listings" /\ response' = "ok")
           => /\ pc' # "exit1"
              /\ Len(listings') = Min(Len(feed), config.max_jobs)]_vars

\* the Listing Source returned its list to run()
ListingsReturned ==
    /\ response = "ok"
    /\ overlong_row = 0 \/ overlong_row > config.max_jobs

\* C23: when the Listing Source returns, what it returns is the feed cut at
\* max_jobs: as many postings as the smaller of the feed's length and
\* max_jobs, the i-th being the i-th row of the feed; the loop of run() is
\* never at a position beyond max_jobs and no call is made for one.
C23_FirstRowsInFeedOrder ==
    ListingsReturned
        => /\ Len(listings) = Min(Len(feed), config.max_jobs)
           /\ \A i \in 1..Len(listings) : listings[i] = feed[i]
           /\ pc \in LoopStages => idx <= config.max_jobs
           /\ \A i \in Invoked \cup EvaluatedAt \cup slept : i <= config.max_jobs

\* C23 witness: a feed longer than max_jobs, and a run that has gone through
\* all the postings it was given and fetched the last of them
C23_Witness ==
    /\ ListingsReturned
    /\ pc = "save"
    /\ Len(feed) > config.max_jobs
    /\ Len(listings) = config.max_jobs
    /\ Len(listings) \in fetched

\* C24 as stated: every posting that was fetched and scored successfully, once
\* the loop is done with it or the run has ended, has exactly one Evaluation
\* in the results and its URL in the seen-set, whatever came after the
\* scoring; and the Evaluation of a posting whose letter could not be
\* generated or written has no cover-letter path.
C24_EvaluatedWhateverFollows ==
    /\ \A i \in Processed :
           (i < idx \/ pc \notin LoopStages)
               => /\ Cardinality({k \in 1..Len(all_jobs) : all_jobs[k].pos = i}) = 1
                  /\ listings[i] \in seen_urls
    /\ \A k \in 1..Len(all_jobs) :
           all_jobs[k].pos \in letter_failed => all_jobs[k].cover_letter_path = None

\* the step that follows each step of the loop body for the same posting
StepAfter ==
    [dedup |-> "distance", distance |-> "fetch", fetch |-> "score",
     score |-> "analyze", analyze |-> "letter", letter |-> "letter"]

\* C25: within the loop, a step either stays with the posting and goes to the
\* next step of the fixed order (dedup, distance, fetch, score, analysis,
\* letter and record), or ends the run, or is done with the posting and goes
\* to the dedup check of the next one (or to the end of the loop); each call
\* is made at its own step and for the current posting only, the Scorer only
\* for a posting whose fetch succeeded, the record and the mark only at the
\* last step; nothing was ever done for a posting after the current one, and
\* the current posting has no Evaluation while it is still in the loop.
C25_FixedStepOrder ==
    /\ [](/\ \A i \in Invoked \cup EvaluatedAt \cup failed \cup slept : i <= idx
          /\ pc \in LoopStages => idx \notin EvaluatedAt)
    /\ [][(run' = run /\ pc \in LoopStages) =>
              /\ \/ idx' = idx /\ pc' = StepAfter[pc] /\ pc # "letter"
                 \/ idx' = idx /\ pc' = "exit1"
                 \/ MovesOnFrom(idx)
              /\ geocoded' # geocoded
                    => pc = "distance" /\ \E d \in geocoded' : geocoded' = geocoded \cup {d} /\ d[1] = idx
              /\ fetched' # fetched => pc = "fetch" /\ fetched' = fetched \cup {idx}
              /\ scored' # scored
                    => /\ pc = "score" /\ scored' = scored \cup {idx}
                       /\ idx \in fetched \ failed
              /\ lettered' # lettered
                    => /\ pc = "letter" /\ lettered' = lettered \cup {idx}
                       /\ idx \in Processed
              /\ all_jobs' # all_jobs
                    => /\ pc = "letter" /\ idx \in Processed
                       /\ Len(all_jobs') = Len(all_jobs) + 1
                       /\ all_jobs'[Len(all_jobs')].pos = idx
                       /\ MovesOnFrom(idx)
              /\ seen_urls' # seen_urls
                    => /\ pc = "letter"
                       /\ seen_urls' = seen_urls \cup {listings[idx]}]_vars

\* C25 witness: the first posting went through every step, distance query and
\* letter included, and the second one is at its scoring
C25_Witness ==
    /\ pc = "score"
    /\ idx = 2
    /\ 1 \in GeocodedAt \cap fetched \cap scored \cap lettered \cap EvaluatedAt
    /\ 2 \in fetched \ scored

\* C26 as stated: whatever answer of the model the scoring step gets, the
\* Scorer adapter returns failure exactly when the answer is empty, holds no
\* parsable JSON object, or holds an object whose score field is missing or
\* is not a number; on every other answer it returns a score within 0..100.
C26_FailureExactlyWithoutNumericScore ==
    [][pc = "score" =>
          \A r \in Responses :
              r.kind # "api_error"
                  => IF r.kind \in {"empty", "no_json", "bad_json", "no_score"}
                        \/ r.score.type # "number"
                     THEN score_job(r) = None
                     ELSE score_job(r) # None /\ InRange(score_job(r)[1])]_vars

\* the pipeline was constructed with a target location and a maximum distance
\* configured, and geocoding the target location gave nothing
TargetUnresolved ==
    /\ Constructed \/ response # "unsent"
    /\ config.target_location # None
    /\ Truthy(config.max_distance_km)
    /\ target_coords = None

\* C27: in a run whose target location was configured with a maximum distance
\* and could not be geocoded at construction, the Geocoder is queried for no
\* posting, the distance check lets every posting through to the fetch, and
\* no Evaluation carries a distance.
C27_UnresolvedTargetDisablesFilter ==
    /\ [](TargetUnresolved
             => /\ geocoded = {}
                /\ distance_km = None
                /\ \A k \in 1..Len(all_jobs) : all_jobs[k].distance_km = None)
    /\ [][(TargetUnresolved /\ pc = "distance")
             => (pc' = "fetch" /\ idx' = idx /\ geocoded' = geocoded)]_vars

\* C27 witness: such a run went through its postings and recorded every one
C27_Witness ==
    /\ TargetUnresolved
    /\ pc = "save"
    /\ Len(listings) > 1
    /\ EvaluatedAt = Positions

\* C28: within a process no step takes a URL out of the seen-set, with or
\* without the rescan-all override, so the seen-set always contains what was
\* loaded; a save that succeeds writes a set that contains what was loaded,
\* and, when the file was loaded as it was, everything the file held.
C28_SeenSetOnlyGrows ==
    /\ [](loaded \subseteq seen_urls)
    /\ [][run' = run =>
              /\ seen_urls \subseteq seen_urls'
              /\ (pc = "save" /\ saves' = <<"ok">>)
                    => /\ scanned_file'.kind = "ok"
                       /\ scanned_file'.urls = seen_urls
                       /\ loaded \subseteq scanned_file'.urls
                       /\ scanned_file.kind = "ok"
                             => scanned_file.urls \subseteq scanned_file'.urls]_vars

\* C28 witness: a rescan-all run evaluated a posting that was in the loaded
\* set and one that was not, and saved a set larger than the loaded one
C28_Witness ==
    /\ pc = "json"
    /\ config.rescan_all_jobs
    /\ saves = <<"ok">>
    /\ \E i \in EvaluatedAt : listings[i] \in loaded
    /\ \E i \in EvaluatedAt : listings[i] \notin loaded
    /\ loaded \subseteq scanned_file.urls
    /\ scanned_file.urls # loaded

\* positions before i that carry the URL of position i
EarlierSameUrl(i) == {j \in 1..(i - 1) : listings[j] = listings[i]}

\* C29: in a run without the rescan-all override, a URL that a posting was
\* evaluated for is in the seen-set from that step on: the dedup check skips
\* every later posting with that URL, with no call made for it; so the
\* results hold at most one Evaluation per URL, that of the first posting with
\* the URL whose fetch and scoring both succeeded.
C29_MarkedAtOnceWithinTheRun ==
    /\ [](~config.rescan_all_jobs
             => /\ \A i, j \in EvaluatedAt : listings[i] = listings[j] => i = j
                /\ \A i \in EvaluatedAt :
                       /\ listings[i] \in seen_urls
                       /\ \A j \in EarlierSameUrl(i) : j \notin Processed
                /\ \A j \in Positions :
                       (EarlierSameUrl(j) \cap EvaluatedAt # {}) => j \notin Invoked \cup EvaluatedAt)
    /\ [][(/\ run' = run
           /\ ~config.rescan_all_jobs
           /\ pc = "dedup"
           /\ EarlierSameUrl(idx) \cap EvaluatedAt # {})
             => /\ MovesOnFrom(idx)
                /\ all_jobs' = all_jobs
                /\ geocoded' = geocoded /\ fetched' = fetched /\ scored' = scored]_vars

\* C29 witness: two postings with one URL that was not in the loaded set; the
\* first was evaluated, the second was skipped and the run reached its end
C29_Witness ==
    /\ pc = "save"
    /\ ~config.rescan_all_jobs
    /\ Len(listings) = 2
    /\ listings[1] = listings[2]
    /\ listings[1] \notin loaded
    /\ EvaluatedAt = {1}
    /\ fetched = {1}

\* C30: the step in which the feed request fails is the call of the Listing
\* Source at the start of run() and it ends the process with exit code 1,
\* leaving the seen-set file as it is; in the state it leaves, no posting was
\* examined, no call was made for a posting (Geocoder, Description Fetcher,
\* Scorer, Letter Generator), the seen-set was not saved and neither export
\* was written; and the process takes no further step.
C30_FeedFailureEndsTheRun ==
    /\ [](response = "failed"
             => /\ pc = "exit1"
                /\ idx = 0 /\ listings = <<>>
                /\ Invoked = {} /\ failed = {}
                /\ all_jobs = <<>>
                /\ seen_urls = loaded
                /\ saves = <<>>
                /\ json_out = None /\ html_out = None)
    /\ [][run' = run =>
              /\ response' = "failed"
                    => (pc = "listings" /\ pc' = "exit1" /\ scanned_file' = scanned_file)
              /\ response # "failed"]_vars

\* C30 witness: the feed request failed in a process that had loaded a
\* non-empty seen-set and whose feed holds postings
C30_Witness ==
    /\ response = "failed"
    /\ pc = "exit1"
    /\ loaded # {}
    /\ feed # <<>>
    /\ scanned_file.kind = "ok"

====
